---- MODULE Spec2Model ----
(***************************************************************************)
(* Cold Case Detective: the Express backend (backend/index.js) and the     *)
(* Next.js page (frontend/app/page.js), with the Python RAG service and    *)
(* MongoDB as their environment.                                           *)
(*                                                                         *)
(* Every `await` of a handler is a suspension point: a handler is a chain  *)
(* of actions, one per stretch of code between two awaits.  What the RAG   *)
(* service, MongoDB and the network answer is chosen by the environment.   *)
(* Strings are sequences of one-character strings, so that trim() and      *)
(* substring() are computed, not assumed.                                  *)
(***************************************************************************)
EXTENDS Integers, Sequences, FiniteSets, TLC

\* ------------------------------------------------------------------ bounds
MaxQueries  == 1   \* /api/query requests in one run
MaxSessions == 1   \* sessions created in one run
MaxUploads  == 2   \* /api/upload requests in one run

\* ------------------------------------------------------- program constants
TitleMax == 50     \* question.substring(0, 50)

\* --------------------------------------------------------------- JS values
Undefined == [t |-> "undefined"]
Str(s)    == [t |-> "string", s |-> s]

\* The check `question === undefined` in the place of `!question`
TruthyUnlessUndefined(v) == v.t = "string"

\* !v for the values a question or a sessionId takes here
Truthy(v) == v.t = "string" /\ v.s # <<>>

RECURSIVE TrimLeft(_)
TrimLeft(s) == IF s # <<>> /\ Head(s) = " " THEN TrimLeft(Tail(s)) ELSE s

RECURSIVE TrimRight(_)
TrimRight(s) ==
    IF s # <<>> /\ s[Len(s)] = " " THEN TrimRight(SubSeq(s, 1, Len(s) - 1)) ELSE s

\* String.prototype.trim
Trim(s) == TrimRight(TrimLeft(s))

\* String.prototype.substring(0, n)
Substring0(s, n) == SubSeq(s, 1, IF Len(s) < n THEN Len(s) ELSE n)

Who      == <<"w", "h", "o">>
LongQ    == [i \in 1..(TitleMax + 1) |-> "x"]
Ellipsis == <<".", ".", ".">>

\* What the user may type into the message box
Inputs == {<<" ">>, <<" ">> \o Who \o <<" ">>}
\* tip.query of the tips the page shows
TipQueries == {Who}
\* question of a request sent to the backend without the page
DirectQuestions == {Undefined, Str(<<>>), Str(LongQ)}

\* ---------------------------------------------------------------- messages
SubmitUnavailableText ==
    "I seem to be having trouble accessing the case files. Make sure the Python API is running."
TipUnavailableText == "I seem to be having trouble accessing the case files."
\* 'New Investigation'
DefaultTitle == <<"N", "e", "w", " ", "I", "n", "v", "e", "s", "t", "i", "g", "a", "t", "i",
                  "o", "n">>

\* The RAG service's answers to POST /query
AnswerData == {[answer |-> "a1", sources |-> <<>>],
               [answer |-> "a2", sources |-> <<"a.txt">>]}

NoReply == [kind |-> "none"]
NoResp  == [status |-> 0]
NoDoc   == [title |-> <<>>, messages |-> <<>>, createdAt |-> 0, updatedAt |-> 0]

\* How a fetch of the RAG service's /query can settle
RagQueryReplies ==
    {[kind |-> "ok", status |-> 200, body |-> d] : d \in AnswerData}
    \cup {[kind |-> "okBadJson", status |-> 200],
          [kind |-> "err", status |-> 500, body |-> [detail |-> "rag error"]],
          [kind |-> "errBadJson", status |-> 502],
          [kind |-> "netfail"]}

VARIABLES
    mongoConnected,    \* mongoose.connection.readyState === 1
    sessions,          \* the Session collection: id -> document
    inMemorySessions,  \* let inMemorySessions = []
    now,               \* the clock read by new Date() / Date.now()
    queries,           \* the /api/query requests, in order of creation
    ragFiles,          \* the RAG service's evidence files (its /sources list)
    ragCalls,          \* every request the backend has sent the RAG service
    messages, input, isLoading,            \* page state: the chat
    sources, isUploading, uploadStatus,    \* page state: the evidence panel
    mounted,           \* the mount effect has run
    uploads,           \* the /api/upload requests, in order of creation
    tmpFiles,          \* multer's temporary files that exist
    srcReqs            \* the page's GET /api/sources fetches

queryVars  == <<mongoConnected, sessions, inMemorySessions, now, queries,
                messages, input, isLoading>>
uploadVars == <<sources, isUploading, uploadStatus, mounted, uploads, tmpFiles, srcReqs>>
vars == <<mongoConnected, sessions, inMemorySessions, now, queries, ragFiles, ragCalls,
          messages, input, isLoading, sources, isUploading, uploadStatus, mounted,
          uploads, tmpFiles, srcReqs>>

Init ==
    /\ mongoConnected = FALSE      \* mongoose.connect() has not resolved yet
    /\ sessions = <<>>
    /\ inMemorySessions = <<>>
    /\ now = 1
    /\ queries = <<>>
    /\ ragFiles = {}
    /\ ragCalls = {}
    /\ messages = <<>>
    /\ input = <<>>
    /\ isLoading = FALSE
    /\ sources = {}
    /\ isUploading = FALSE
    /\ uploadStatus = [type |-> "null"]
    /\ mounted = FALSE
    /\ uploads = <<>>
    /\ tmpFiles = {}
    /\ srcReqs = <<>>

\* ============================================================ MongoDB, clock
MongoUp   == /\ ~mongoConnected /\ mongoConnected' = TRUE
             /\ UNCHANGED <<sessions, inMemorySessions, now, queries, ragFiles, ragCalls,
                            messages, input, isLoading>>
             /\ UNCHANGED uploadVars
MongoDown == /\ mongoConnected /\ mongoConnected' = FALSE
             /\ UNCHANGED <<sessions, inMemorySessions, now, queries, ragFiles, ragCalls,
                            messages, input, isLoading>>
             /\ UNCHANGED uploadVars

NewSessionDoc == [title |-> DefaultTitle, messages |-> <<>>, createdAt |-> now,
                  updatedAt |-> now]

\* POST /api/sessions
CreateSession ==
    /\ Len(sessions) + Len(inMemorySessions) < MaxSessions
    /\ IF ~mongoConnected
       THEN /\ inMemorySessions' = <<[id |-> now] @@ NewSessionDoc>> \o inMemorySessions
            /\ now' = now + 1
            /\ UNCHANGED sessions
       ELSE /\ \/ sessions' = Append(sessions, NewSessionDoc) /\ now' = now + 1
               \/ UNCHANGED <<sessions, now>>       \* session.save() throws: 500
            /\ UNCHANGED inMemorySessions
    /\ UNCHANGED <<mongoConnected, queries, ragFiles, ragCalls, messages, input, isLoading>>
    /\ UNCHANGED uploadVars

\* ============================================================ POST /api/query
\* sessionId of a request: 0 when the body has none, -1 when it is no ObjectId
NoSid  == 0
BadSid == 0 - 1
DirectSids == {NoSid, BadSid} \cup 1..MaxSessions

NewQuery(origin, question, sid, pc, ui) ==
    [origin |-> origin, question |-> question, sid |-> sid, pc |-> pc, rag |-> NoReply,
     doc |-> NoDoc, resp |-> NoResp, nresp |-> 0, ui |-> ui, lost |-> FALSE]

Respond(r, status, body) ==
    [queries EXCEPT ![r].pc = "done", ![r].resp = [status |-> status, body |-> body],
                    ![r].nresp = @ + 1]

\* A catch that answers in the detective's place
QueryCatchFabricates(r) == Respond(r, 200, [answer |-> "a1", sources |-> <<>>])

\* the outer catch of the handler
QueryCatch(r) == Respond(r, 500, [error |-> "Failed to query detective", details |-> "message"])

\* A request sent to the backend by something other than the page
DirectQuery(q, sid) ==
    /\ Len(queries) < MaxQueries
    /\ queries' = Append(queries, NewQuery("direct", q, sid, "received", "none"))
    /\ UNCHANGED <<mongoConnected, sessions, inMemorySessions, now, ragFiles, ragCalls,
                   messages, input, isLoading>>
    /\ UNCHANGED uploadVars

\* The handler up to its first await: the check of the question, the fetch
QueryStart(r) ==
    /\ r \in DOMAIN queries /\ queries[r].pc = "received"
    /\ IF ~Truthy(queries[r].question)
       THEN /\ queries' = Respond(r, 400, [error |-> "Question is required"])
            /\ UNCHANGED ragCalls
       ELSE /\ queries' = [queries EXCEPT ![r].pc = "awaitRag"]
            /\ ragCalls' = ragCalls \cup
                 {[ep |-> "/query", method |-> "POST", req |-> r,
                   question |-> queries[r].question]}
    /\ UNCHANGED <<mongoConnected, sessions, inMemorySessions, now, ragFiles,
                   messages, input, isLoading>>
    /\ UNCHANGED uploadVars

\* The RAG service (or the network) settles the fetch of /query
RagAnswer(r) ==
    /\ r \in DOMAIN queries /\ queries[r].pc = "awaitRag" /\ queries[r].rag = NoReply
    /\ \E reply \in RagQueryReplies : queries' = [queries EXCEPT ![r].rag = reply]
    /\ UNCHANGED <<mongoConnected, sessions, inMemorySessions, now, ragFiles, ragCalls,
                   messages, input, isLoading>>
    /\ UNCHANGED uploadVars

\* From the settled fetch to the next await (Session.findById) or the response
QueryOnRagReply(r) ==
    /\ r \in DOMAIN queries /\ queries[r].pc = "awaitRag" /\ queries[r].rag # NoReply
    /\ LET q == queries[r]
           reply == q.rag
       IN  queries' =
             CASE reply.kind = "netfail"    -> QueryCatch(r)
               [] reply.kind = "err"        -> Respond(r, reply.status, reply.body)
               [] reply.kind = "errBadJson" -> QueryCatch(r)
               [] reply.kind = "okBadJson"  -> QueryCatch(r)
               [] reply.kind = "ok" ->
                    IF q.sid # NoSid /\ mongoConnected
                    THEN [queries EXCEPT ![r].pc = "awaitFind"]
                    ELSE Respond(r, 200, reply.body)
    /\ UNCHANGED <<mongoConnected, sessions, inMemorySessions, now, ragFiles, ragCalls,
                   messages, input, isLoading>>
    /\ UNCHANGED uploadVars

\* question.substring(0, 50) + (question.length > 50 ? '...' : '')
TitleOf(question) ==
    Substring0(question, TitleMax) \o (IF Len(question) > TitleMax THEN Ellipsis ELSE <<>>)

\* The session document after the push, the updatedAt and the title update
Pushed(doc, question, data, date) ==
    LET msgs == doc.messages \o
                  <<[role |-> "user", content |-> question],
                    [role |-> "detective", content |-> data.answer, sources |-> data.sources]>>
    IN  [doc EXCEPT !.messages = msgs,
                    !.updatedAt = date,
                    !.title = IF doc.title = DefaultTitle /\ Len(msgs) = 2
                              THEN TitleOf(question) ELSE doc.title]

\* Session.findById settles; on a document, the changes up to `await session.save()`
QueryOnFindById(r) ==
    /\ r \in DOMAIN queries /\ queries[r].pc = "awaitFind"
    /\ LET q == queries[r]
       IN  \/ \* findById throws (no ObjectId, or the database fails): the inner catch
              /\ queries' = Respond(r, 200, q.rag.body)
              /\ UNCHANGED now
           \/ \* no such session
              /\ q.sid # BadSid /\ q.sid \notin DOMAIN sessions
              /\ queries' = Respond(r, 200, q.rag.body)
              /\ UNCHANGED now
           \/ /\ q.sid \in DOMAIN sessions
              /\ queries' = [queries EXCEPT
                    ![r].pc = "awaitSave",
                    ![r].doc = Pushed(sessions[q.sid], q.question.s, q.rag.body, now)]
              /\ now' = now + 1
    /\ UNCHANGED <<mongoConnected, sessions, inMemorySessions, ragFiles, ragCalls,
                   messages, input, isLoading>>
    /\ UNCHANGED uploadVars

\* What session.save() writes: the two pushed messages are appended to the stored
\* array, updatedAt and the title are set
Saved(stored, doc) ==
    [stored EXCEPT !.messages = @ \o SubSeq(doc.messages, Len(doc.messages) - 1,
                                             Len(doc.messages)),
                   !.updatedAt = doc.updatedAt,
                   !.title = doc.title]

\* session.save() without the inner try: a failed save reaches the outer catch
QueryOnSaveUncaught(r) ==
    /\ r \in DOMAIN queries /\ queries[r].pc = "awaitSave"
    /\ LET q == queries[r]
       IN  \/ /\ sessions' = [sessions EXCEPT ![q.sid] = Saved(@, q.doc)]
              /\ queries' = Respond(r, 200, q.rag.body)
           \/ /\ UNCHANGED sessions
              /\ queries' = Respond(r, 500, [error |-> "Failed to query detective",
                                             details |-> "message"])
    /\ UNCHANGED <<mongoConnected, inMemorySessions, now, ragFiles, ragCalls,
                   messages, input, isLoading>>
    /\ UNCHANGED uploadVars

\* session.save() with the in-memory list as the fallback of a failed save
QueryOnSaveFallsBack(r) ==
    /\ r \in DOMAIN queries /\ queries[r].pc = "awaitSave"
    /\ LET q == queries[r]
       IN  /\ \/ /\ sessions' = [sessions EXCEPT ![q.sid] = Saved(@, q.doc)]
                 /\ UNCHANGED inMemorySessions
              \/ /\ UNCHANGED sessions
                 /\ inMemorySessions' = <<[id |-> q.sid] @@ q.doc>> \o inMemorySessions
           /\ queries' = Respond(r, 200, q.rag.body)
    /\ UNCHANGED <<mongoConnected, now, ragFiles, ragCalls, messages, input, isLoading>>
    /\ UNCHANGED uploadVars

\* session.save() settles, then res.json(data)
QueryOnSave(r) ==
    /\ r \in DOMAIN queries /\ queries[r].pc = "awaitSave"
    /\ LET q == queries[r]
       IN  /\ \/ sessions' = [sessions EXCEPT ![q.sid] = Saved(@, q.doc)]
              \/ UNCHANGED sessions      \* save throws: the inner catch
           /\ queries' = Respond(r, 200, q.rag.body)
    /\ UNCHANGED <<mongoConnected, inMemorySessions, now, ragFiles, ragCalls,
                   messages, input, isLoading>>
    /\ UNCHANGED uploadVars

\* The caller goes away or the connection to the backend is lost.  The handler
\* has no abort handling and runs on; the page's fetch rejects.
ClientLost(r) ==
    /\ r \in DOMAIN queries /\ ~queries[r].lost
    /\ queries[r].pc # "unsent"
    /\ queries[r].ui \in {"none", "wait"}
    /\ queries[r].origin = "direct" => queries[r].pc # "done"
    /\ queries' = [queries EXCEPT ![r].lost = TRUE]
    /\ UNCHANGED <<mongoConnected, sessions, inMemorySessions, now, ragFiles, ragCalls,
                   messages, input, isLoading>>
    /\ UNCHANGED uploadVars

\* ============================================================ the page: chat
\* onChange of the message box (disabled while isLoading)
TypeInput(s) ==
    /\ ~isLoading /\ input # s
    /\ input' = s
    /\ UNCHANGED <<mongoConnected, sessions, inMemorySessions, now, queries, ragFiles,
                   ragCalls, messages, isLoading>>
    /\ UNCHANGED uploadVars

UserMessage(question, r) == [role |-> "user", content |-> question, req |-> r]

\* handleSubmit up to its await; the body of the request holds the question alone
HandleSubmit ==
    /\ ~(Trim(input) = <<>> \/ isLoading)
    /\ Len(queries) < MaxQueries
    /\ LET question == Trim(input)
           r == Len(queries) + 1
       IN  /\ input' = <<>>
           /\ messages' = Append(messages, UserMessage(question, r))
           /\ isLoading' = TRUE
           /\ queries' = Append(queries, NewQuery("submit", Str(question), NoSid,
                                                  "received", "wait"))
    /\ UNCHANGED <<mongoConnected, sessions, inMemorySessions, now, ragFiles, ragCalls>>
    /\ UNCHANGED uploadVars

\* handleTipClick up to setTimeout
HandleTipClick(query) ==
    /\ ~isLoading
    /\ Len(queries) < MaxQueries
    /\ input' = query
    /\ queries' = Append(queries, NewQuery("tip", Str(query), NoSid, "unsent", "timer"))
    /\ UNCHANGED <<mongoConnected, sessions, inMemorySessions, now, ragFiles, ragCalls,
                   messages, isLoading>>
    /\ UNCHANGED uploadVars

\* The timer callback of handleTipClick, up to the fetch
TipTimer(r) ==
    /\ r \in DOMAIN queries /\ queries[r].ui = "timer"
    /\ messages' = Append(messages, UserMessage(queries[r].question.s, r))
    /\ isLoading' = TRUE
    /\ queries' = [queries EXCEPT ![r].pc = "received", ![r].ui = "wait"]
    /\ UNCHANGED <<mongoConnected, sessions, inMemorySessions, now, ragFiles, ragCalls,
                   input>>
    /\ UNCHANGED uploadVars

ErrorMessage(origin, r) ==
    [role |-> "detective",
     content |-> IF origin = "submit" THEN SubmitUnavailableText ELSE TipUnavailableText,
     error |-> TRUE, req |-> r]

DetectiveMessage(data, r) ==
    [role |-> "detective", content |-> data.answer, sources |-> data.sources, req |-> r]

ResOk(resp) == resp.status >= 200 /\ resp.status <= 299

\* The page's fetch of /api/query settles: the rest of handleSubmit, or the
\* then/catch/finally chain of handleTipClick
UiOnQuerySettled(r) ==
    /\ r \in DOMAIN queries /\ queries[r].ui = "wait"
    /\ queries[r].lost \/ queries[r].pc = "done"
    /\ LET q == queries[r]
       IN  /\ messages' = Append(messages,
                 IF q.lost \/ ~ResOk(q.resp)
                 THEN ErrorMessage(q.origin, r)
                 ELSE DetectiveMessage(q.resp.body, r))
           /\ isLoading' = FALSE
           /\ input' = IF q.origin = "tip" THEN <<>> ELSE input
           /\ queries' = [queries EXCEPT ![r].ui = "done"]
    /\ UNCHANGED <<mongoConnected, sessions, inMemorySessions, now, ragFiles, ragCalls>>
    /\ UNCHANGED uploadVars

\* ------------------------------------------------------------ specifications
MongoStep == MongoUp \/ MongoDown \/ CreateSession

\* The chat as the page drives it
UiQueryStep == \E r \in 1..MaxQueries : TipTimer(r) \/ UiOnQuerySettled(r)

\* The page's requests carry no sessionId: the handler never reaches findById
BackendChatStep == \E r \in 1..MaxQueries : QueryStart(r) \/ QueryOnRagReply(r)

NextChat ==
    \/ MongoStep
    \/ \E s \in Inputs : TypeInput(s)
    \/ HandleSubmit
    \/ \E q \in TipQueries : HandleTipClick(q)
    \/ \E r \in 1..MaxQueries : RagAnswer(r)
    \/ \E r \in 1..MaxQueries : ClientLost(r)
    \/ BackendChatStep
    \/ UiQueryStep

SpecChat == Init /\ [][NextChat]_vars

\* POST /api/query as any client of the backend may call it
BackendQueryStep == \E r \in 1..MaxQueries :
    QueryStart(r) \/ QueryOnRagReply(r) \/ QueryOnFindById(r) \/ QueryOnSave(r)

NextApi ==
    \/ MongoStep
    \/ \E q \in DirectQuestions, sid \in DirectSids : DirectQuery(q, sid)
    \/ \E r \in 1..MaxQueries : RagAnswer(r)
    \/ \E r \in 1..MaxQueries : ClientLost(r)
    \/ BackendQueryStep

SpecApi == Init /\ [][NextApi]_vars

\* ============================================================ evidence files
\* A file name is the sequence of its dot-separated parts: file.name.split('.')
TxtFile == <<"a", "txt">>
PdfFile == <<"b", "PDF">>
ExeFile == <<"c", "exe">>
NoFile  == [name |-> <<>>]
File(name) == [name |-> name]

\* What the user may drop or select
UiFiles == {File(TxtFile), File(PdfFile), File(ExeFile)}
\* req.file of an upload sent to the backend without the page
DirectFiles == {NoFile, File(ExeFile)}

\* String.prototype.toLowerCase, on the parts used here
ToLowerCase(part) ==
    CASE part = "PDF" -> "pdf"
      [] part = "TXT" -> "txt"
      [] part = "EXE" -> "exe"
      [] OTHER -> part

\* file.name.split('.').pop().toLowerCase()
Ext(name) == ToLowerCase(name[Len(name)])

\* The list of extensions with one too many
UiAcceptsExe(file) == Ext(file.name) \in {"txt", "pdf", "exe"}

\* ['txt', 'pdf'].includes(ext)
UiAccepts(file) == Ext(file.name) \in {"txt", "pdf"}

NewUpload(origin, file, ui) ==
    [origin |-> origin, file |-> file, pc |-> "received", rag |-> NoReply,
     resp |-> NoResp, nresp |-> 0, unlinks |-> 0, ui |-> ui, lost |-> FALSE]

NewSrcReq == [pc |-> "sent", reply |-> NoReply]

\* fetchSources up to its await
FetchSources == Append(srcReqs, NewSrcReq)

\* The mount effect: checkHealth(), fetchSources(), fetchTips()
Mount ==
    /\ ~mounted
    /\ mounted' = TRUE
    /\ srcReqs' = FetchSources
    /\ UNCHANGED <<sources, isUploading, uploadStatus, uploads, tmpFiles, ragFiles, ragCalls>>
    /\ UNCHANGED queryVars

\* handleFileUpload up to its await; multer stores the temporary file as the
\* backend receives the request
HandleFileUpload(file) ==
    IF ~UiAccepts(file)
    THEN /\ uploadStatus' = [type |-> "error",
                             message |-> "Only .txt and .pdf files are supported"]
         /\ UNCHANGED <<isUploading, uploads, tmpFiles>>
    ELSE /\ Len(uploads) < MaxUploads
         /\ isUploading' = TRUE
         /\ uploadStatus' = [type |-> "null"]
         /\ uploads' = Append(uploads, NewUpload("ui", file, "wait"))
         /\ tmpFiles' = tmpFiles \cup {Len(uploads) + 1}

\* handleDrop: e.dataTransfer.files[0]
HandleDrop(file) ==
    /\ mounted
    /\ HandleFileUpload(file)
    /\ UNCHANGED <<sources, mounted, srcReqs, ragFiles, ragCalls>>
    /\ UNCHANGED queryVars

\* handleFileSelect: e.target.files[0], then the input is reset
HandleFileSelect(file) ==
    /\ mounted
    /\ HandleFileUpload(file)
    /\ UNCHANGED <<sources, mounted, srcReqs, ragFiles, ragCalls>>
    /\ UNCHANGED queryVars

\* The effect that clears uploadStatus after 4 s
ClearUploadStatus ==
    /\ uploadStatus.type # "null"
    /\ uploadStatus' = [type |-> "null"]
    /\ UNCHANGED <<sources, isUploading, mounted, uploads, tmpFiles, srcReqs, ragFiles,
                   ragCalls>>
    /\ UNCHANGED queryVars

\* An upload sent to the backend by something other than the page
DirectUpload(file) ==
    /\ Len(uploads) < MaxUploads
    /\ uploads' = Append(uploads, NewUpload("direct", file, "none"))
    /\ tmpFiles' = IF file = NoFile THEN tmpFiles ELSE tmpFiles \cup {Len(uploads) + 1}
    /\ UNCHANGED <<sources, isUploading, uploadStatus, mounted, srcReqs, ragFiles, ragCalls>>
    /\ UNCHANGED queryVars

\* ============================================================ POST /api/upload
UploadRespond(u, status, body) ==
    [uploads EXCEPT ![u].pc = "done", ![u].resp = [status |-> status, body |-> body],
                    ![u].nresp = @ + 1]

\* A catch that responds and leaves the temporary file
UploadCatchLeavesFile(ups, files, u) ==
    [ups |-> [ups EXCEPT ![u].pc = "done",
                         ![u].resp = [status |-> 500,
                                      body |-> [error |-> "Failed to upload file",
                                                details |-> "message"]],
                         ![u].nresp = @ + 1],
     files |-> files]

\* The catch of the handler: the temporary file is unlinked if it exists
UploadCatch(ups, files, u) ==
    [ups |-> [ups EXCEPT ![u].pc = "done",
                         ![u].resp = [status |-> 500,
                                      body |-> [error |-> "Failed to upload file",
                                                details |-> "message"]],
                         ![u].nresp = @ + 1,
                         ![u].unlinks = IF u \in files THEN @ + 1 ELSE @],
     files |-> files \ {u}]

\* fs.unlinkSync(req.file.path) after the fetch
UploadUnlink(ups, files, u) ==
    [ups |-> [ups EXCEPT ![u].unlinks = @ + 1], files |-> files \ {u}]

\* The handler up to its await: the check of req.file, readFileSync, the fetch
UploadStart(u) ==
    /\ u \in DOMAIN uploads /\ uploads[u].pc = "received"
    /\ IF uploads[u].file = NoFile
       THEN /\ uploads' = UploadRespond(u, 400, [error |-> "No file uploaded"])
            /\ UNCHANGED <<tmpFiles, ragCalls>>
       ELSE \/ \* readFileSync throws
               /\ uploads' = UploadCatch(uploads, tmpFiles, u).ups
               /\ tmpFiles' = UploadCatch(uploads, tmpFiles, u).files
               /\ UNCHANGED ragCalls
            \/ /\ uploads' = [uploads EXCEPT ![u].pc = "awaitRag"]
               /\ ragCalls' = ragCalls \cup
                    {[ep |-> "/upload", method |-> "POST", up |-> u,
                      name |-> uploads[u].file.name]}
               /\ UNCHANGED tmpFiles
    /\ UNCHANGED <<sources, isUploading, uploadStatus, mounted, srcReqs, ragFiles>>
    /\ UNCHANGED queryVars

\* The RAG service validates the file type before it ingests
RagAccepts(name) == Ext(name) \in {"txt", "pdf"}

\* The RAG service (or the network) settles the fetch of /upload
RagIngest(u) ==
    /\ u \in DOMAIN uploads /\ uploads[u].pc = "awaitRag" /\ uploads[u].rag = NoReply
    /\ LET name == uploads[u].file.name
       IN  \/ /\ RagAccepts(name)
              /\ ragFiles' = ragFiles \cup {name}
              /\ \E reply \in {[kind |-> "ok", status |-> 200,
                                body |-> [message |-> "uploaded", filename |-> name]],
                               [kind |-> "okBadJson", status |-> 200]} :
                    uploads' = [uploads EXCEPT ![u].rag = reply]
           \/ /\ UNCHANGED ragFiles
              /\ \E reply \in {[kind |-> "err", status |-> 400,
                                body |-> [detail |-> "rejected"]],
                               [kind |-> "errBadJson", status |-> 502],
                               [kind |-> "netfail"]} :
                    uploads' = [uploads EXCEPT ![u].rag = reply]
    /\ UNCHANGED <<sources, isUploading, uploadStatus, mounted, tmpFiles, srcReqs, ragCalls>>
    /\ UNCHANGED queryVars

\* From the settled fetch to the response
UploadOnRagReply(u) ==
    /\ u \in DOMAIN uploads /\ uploads[u].pc = "awaitRag" /\ uploads[u].rag # NoReply
    /\ LET reply == uploads[u].rag
           unl == UploadUnlink(uploads, tmpFiles, u)
           out == CASE reply.kind = "netfail" -> UploadCatch(uploads, tmpFiles, u)
                    [] reply.kind \in {"errBadJson", "okBadJson"} ->
                         UploadCatch(unl.ups, unl.files, u)
                    [] reply.kind \in {"err", "ok"} ->
                         [ups |-> [unl.ups EXCEPT
                                     ![u].pc = "done",
                                     ![u].resp = [status |-> reply.status,
                                                  body |-> reply.body],
                                     ![u].nresp = @ + 1],
                          files |-> unl.files]
       IN  /\ uploads' = out.ups
           /\ tmpFiles' = out.files
    /\ UNCHANGED <<sources, isUploading, uploadStatus, mounted, srcReqs, ragFiles, ragCalls>>
    /\ UNCHANGED queryVars

\* The connection of the page to the backend is lost: the page's fetch rejects,
\* the handler runs on
UploadLost(u) ==
    /\ u \in DOMAIN uploads /\ uploads[u].ui = "wait" /\ ~uploads[u].lost
    /\ uploads' = [uploads EXCEPT ![u].lost = TRUE]
    /\ UNCHANGED <<sources, isUploading, uploadStatus, mounted, tmpFiles, srcReqs, ragFiles,
                   ragCalls>>
    /\ UNCHANGED queryVars

\* The rest of handleFileUpload, once the page's fetch of /api/upload has settled
UiOnUploadSettled(u) ==
    /\ u \in DOMAIN uploads /\ uploads[u].ui = "wait"
    /\ uploads[u].lost \/ uploads[u].pc = "done"
    /\ LET up == uploads[u]
           ok == ~up.lost /\ ResOk(up.resp)
       IN  /\ uploadStatus' =
                 IF ok
                 THEN [type |-> "success", message |-> "added to evidence",
                       name |-> up.file.name]
                 ELSE [type |-> "error",
                       message |-> IF up.lost THEN "Failed to fetch"
                                   ELSE IF "detail" \in DOMAIN up.resp.body
                                        THEN up.resp.body.detail
                                        ELSE "Upload failed"]
           /\ srcReqs' = IF ok THEN FetchSources ELSE srcReqs
           /\ isUploading' = FALSE
           /\ uploads' = [uploads EXCEPT ![u].ui = "done"]
    /\ UNCHANGED <<sources, mounted, tmpFiles, ragFiles, ragCalls>>
    /\ UNCHANGED queryVars

\* ============================================================ GET /api/sources
\* The RAG service (or the network) settles the backend's fetch of /sources
RagServeSources(s) ==
    /\ s \in DOMAIN srcReqs /\ srcReqs[s].pc = "sent"
    /\ \E reply \in {[kind |-> "ok", body |-> [files |-> ragFiles]],
                     [kind |-> "err", body |-> [detail |-> "rag error"]],
                     [kind |-> "netfail"]} :
          srcReqs' = [srcReqs EXCEPT ![s].pc = "served", ![s].reply = reply]
    /\ UNCHANGED <<sources, isUploading, uploadStatus, mounted, uploads, tmpFiles, ragFiles,
                   ragCalls>>
    /\ UNCHANGED queryVars

\* The handler of GET /api/sources: the body is relayed, whatever the status was
ApiSources(reply) ==
    IF reply.kind = "netfail"
    THEN [status |-> 500, body |-> [error |-> "Failed to fetch sources"]]
    ELSE [status |-> 200, body |-> reply.body]

\* The rest of fetchSources: setSources(data.files || [])
UiOnSources(s) ==
    /\ s \in DOMAIN srcReqs /\ srcReqs[s].pc = "served"
    /\ LET data == ApiSources(srcReqs[s].reply).body
       IN  sources' = IF "files" \in DOMAIN data THEN data.files ELSE {}
    /\ srcReqs' = [srcReqs EXCEPT ![s].pc = "done"]
    /\ UNCHANGED <<isUploading, uploadStatus, mounted, uploads, tmpFiles, ragFiles, ragCalls>>
    /\ UNCHANGED queryVars

\* ------------------------------------------------------------ specifications
BackendUploadStep == \E u \in 1..MaxUploads : UploadStart(u) \/ UploadOnRagReply(u)

UiUploadStep ==
    \/ \E u \in 1..MaxUploads : UiOnUploadSettled(u)
    \/ \E s \in 1..(MaxUploads + 1) : UiOnSources(s)

NextUpload ==
    \/ Mount
    \/ \E f \in UiFiles : HandleDrop(f)
    \/ \E f \in UiFiles : HandleFileSelect(f)
    \/ ClearUploadStatus
    \/ \E f \in DirectFiles : DirectUpload(f)
    \/ \E u \in 1..MaxUploads : RagIngest(u)
    \/ \E u \in 1..MaxUploads : UploadLost(u)
    \/ \E s \in 1..(MaxUploads + 1) : RagServeSources(s)
    \/ BackendUploadStep
    \/ UiUploadStep

SpecUpload == Init /\ [][NextUpload]_vars

\* POST /api/upload as any client of the backend may call it
ApiFiles == {NoFile, File(ExeFile), File(TxtFile)}

NextUploadApi ==
    \/ \E f \in ApiFiles : DirectUpload(f)
    \/ \E u \in 1..MaxUploads : RagIngest(u)
    \/ BackendUploadStep

SpecUploadApi == Init /\ [][NextUploadApi]_vars

\* The whole system.  The claims are checked under the specifications above, each
\* the part of the system its claim is about: the chat and the evidence panel share
\* no state, and neither do the handlers of /api/query and /api/upload.
Next == NextChat \/ NextApi \/ NextUpload \/ NextUploadApi

Spec == Init /\ [][Next]_vars

\* The chat when every step of the page and of the backend that can be taken is
\* taken in the end; nothing is assumed of the RAG service, MongoDB or the user
FairChat == SpecChat /\ WF_vars(BackendChatStep) /\ WF_vars(UiQueryStep)

\* ====================================================================== claims
FromPage(q) == q.origin \in {"submit", "tip"}

\* The messages of the chat that belong to request r
DetectiveMessagesOf(r) ==
    {i \in DOMAIN messages : messages[i].role = "detective" /\ messages[i].req = r}

\* The question and the answer of q are two consecutive messages of the document
HoldsExchange(doc, q) ==
    \E i \in 1..(Len(doc.messages) - 1) :
        /\ doc.messages[i].role = "user"
        /\ doc.messages[i].content = q.question.s
        /\ doc.messages[i + 1].role = "detective"
        /\ doc.messages[i + 1].content = q.resp.body.answer

\* C1: every question the page asked and got an answer for is, with its answer,
\* among the messages of a stored session once the response has been returned.
C1_AnsweredQueriesAreStored ==
    \A r \in DOMAIN queries :
        (FromPage(queries[r]) /\ queries[r].pc = "done" /\ queries[r].resp.status = 200)
        => \/ \E sid \in DOMAIN sessions : HoldsExchange(sessions[sid], queries[r])
           \/ \E i \in DOMAIN inMemorySessions :
                 HoldsExchange(inMemorySessions[i], queries[r])

\* A query failed for the page: no response reached it, or a non-OK one did
FailedForPage(q) == q.lost \/ q.resp.status < 200 \/ q.resp.status > 299

\* The RAG service did not answer the backend's fetch with a readable OK response
RagFailed(q) == q.rag.kind \in {"netfail", "err", "errBadJson", "okBadJson"}

BackendRepliesErrorWithoutAnswer ==
    \A r \in DOMAIN queries :
        (queries[r].pc = "done" /\ RagFailed(queries[r]))
        => /\ queries[r].resp.status >= 400
           /\ "answer" \notin DOMAIN queries[r].resp.body
           /\ queries[r].nresp = 1

PageShowsOneErrorMessage(r, texts) ==
    /\ Cardinality(DetectiveMessagesOf(r)) = 1
    /\ \A i \in DetectiveMessagesOf(r) :
          /\ "error" \in DOMAIN messages[i] /\ messages[i].error = TRUE
          /\ "sources" \notin DOMAIN messages[i]
          /\ messages[i].content \in texts

\* C3 as stated: a failed query gets an error status and a body without an answer
\* from the backend, and exactly one detective message in the page, flagged error,
\* without sources, with the one fixed unavailable text.
C3_FailureShowsTheFixedText ==
    /\ BackendRepliesErrorWithoutAnswer
    /\ \A r \in DOMAIN queries :
          (FromPage(queries[r]) /\ queries[r].ui = "done" /\ FailedForPage(queries[r]))
          => PageShowsOneErrorMessage(r,
                {"I seem to be having trouble accessing the case files. Make sure the Python API is running."})

\* C3 amended: the same, with the text of the path the query took: the text above
\* for handleSubmit, and the shorter text of handleTipClick for a clicked tip.
C3_FailureShowsThePathsText ==
    /\ BackendRepliesErrorWithoutAnswer
    /\ \A r \in DOMAIN queries :
          (FromPage(queries[r]) /\ queries[r].ui = "done" /\ FailedForPage(queries[r]))
          => PageShowsOneErrorMessage(r,
                IF queries[r].origin = "submit"
                THEN {"I seem to be having trouble accessing the case files. Make sure the Python API is running."}
                ELSE {"I seem to be having trouble accessing the case files."})

\* A query submitted in the message box failed at the RAG service and the page
\* has shown its message
C3_Witness ==
    \E r \in DOMAIN queries :
        /\ queries[r].origin = "submit" /\ queries[r].ui = "done"
        /\ queries[r].pc = "done" /\ queries[r].rag.kind = "err"
        /\ ~queries[r].lost
        /\ Cardinality(DetectiveMessagesOf(r)) = 1

\* C4: a query always ends: the request the backend forwarded gets a response and
\* the page's isLoading returns to false, also when the RAG service never answers.
C4_QueryAlwaysEnds ==
    /\ isLoading ~> ~isLoading
    /\ \A r \in 1..MaxQueries :
          (r \in DOMAIN queries /\ queries[r].pc = "awaitRag")
          ~> (r \in DOMAIN queries /\ queries[r].pc = "done")

\* C7: when the RAG service answered a query with an OK response, POST /api/query
\* returns that answer and those sources with status 200, whether the session
\* write was skipped, succeeded or threw.
C7_AnswerReturnedUnchanged ==
    \A r \in DOMAIN queries :
        (queries[r].pc = "done" /\ queries[r].rag.kind = "ok")
        => /\ queries[r].resp.status = 200
           /\ queries[r].resp.body = queries[r].rag.body
           /\ queries[r].nresp = 1

\* The session was found and changed, session.save() threw, the answer was returned
C7_Witness ==
    \E r \in DOMAIN queries :
        /\ queries[r].pc = "done" /\ queries[r].rag.kind = "ok"
        /\ queries[r].sid \in DOMAIN sessions
        /\ Len(queries[r].doc.messages) = 2
        /\ sessions[queries[r].sid].messages = <<>>
        /\ queries[r].resp.status = 200

QuestionMissingOrEmpty(q) ==
    q.question = [t |-> "undefined"] \/ q.question = [t |-> "string", s |-> <<>>]

\* C9: a request without a question, or with an empty one, gets the response 400
\* 'Question is required' and nothing else: nothing is sent to the RAG service and
\* no session is read.
C9_EmptyQuestionRejected ==
    \A r \in DOMAIN queries :
        QuestionMissingOrEmpty(queries[r])
        => /\ queries[r].pc \in {"received", "done"}
           /\ queries[r].pc = "done"
                => /\ queries[r].resp = [status |-> 400,
                                         body |-> [error |-> "Question is required"]]
                   /\ queries[r].nresp = 1
           /\ queries[r].rag = [kind |-> "none"]
           /\ Len(queries[r].doc.messages) = 0
           /\ \A c \in ragCalls : c.ep = "/query" => c.req # r

\* An empty question was rejected while its session existed and MongoDB was connected
C9_Witness ==
    \E r \in DOMAIN queries :
        /\ queries[r].question = [t |-> "string", s |-> <<>>]
        /\ queries[r].pc = "done" /\ queries[r].resp.status = 400
        /\ queries[r].sid \in DOMAIN sessions
        /\ mongoConnected

\* What a step of a query sends the RAG service
QuerySendsOnlyQueries == \A c \in ragCalls' \ ragCalls : c.ep = "/query" /\ c.method = "POST"

\* C6 as stated: a step of a query, whether the query completes, fails or was
\* abandoned, changes no persistent state and sends the RAG service no upload.
C6_QueryMutatesNothing ==
    [][queries' # queries
         => /\ UNCHANGED <<ragFiles, tmpFiles, uploads, sessions, inMemorySessions>>
            /\ QuerySendsOnlyQueries]_vars

\* The exchange appended to the session of request q
ExchangeOf(q) ==
    <<[role |-> "user", content |-> q.question.s],
      [role |-> "detective", content |-> q.rag.body.answer, sources |-> q.rag.body.sources]>>

\* C6 amended: a step of a query changes neither the evidence, nor the temporary
\* files, nor the in-memory sessions, and sends the RAG service no upload; the one
\* persistent state it may change is the session its sessionId names, to which
\* session.save() appends the question and the answer (also for a query whose
\* caller is gone).
C6_QueryMutatesOnlyItsSession ==
    [][queries' # queries
         => /\ UNCHANGED <<ragFiles, tmpFiles, uploads, inMemorySessions>>
            /\ QuerySendsOnlyQueries
            /\ DOMAIN sessions' = DOMAIN sessions
            /\ \A sid \in DOMAIN sessions :
                  sessions'[sid] # sessions[sid]
                  => \E r \in DOMAIN queries :
                        /\ queries[r].sid = sid
                        /\ queries[r].pc = "awaitSave" /\ queries'[r].pc = "done"
                        /\ sessions'[sid].createdAt = sessions[sid].createdAt
                        /\ sessions'[sid].messages =
                              sessions[sid].messages \o ExchangeOf(queries[r])]_vars

\* A query whose caller was gone has completed and written to its session
C6_Witness ==
    \E r \in DOMAIN queries :
        /\ queries[r].lost /\ queries[r].pc = "done"
        /\ queries[r].sid \in DOMAIN sessions
        /\ Len(sessions[queries[r].sid].messages) = 2

\* The file name ends in .txt or .pdf, in any case
NamedTextOrPdf(name) == name[Len(name)] \in {"txt", "TXT", "pdf", "PDF"}

\* C2 as stated: no file that is not text or PDF is forwarded to the RAG service,
\* neither by handleFileUpload nor by POST /api/upload, and no state is made for it.
C2_NothingUnsupportedForwarded ==
    /\ \A c \in ragCalls : c.ep = "/upload" => NamedTextOrPdf(c.name)
    /\ \A name \in ragFiles \cup sources : NamedTextOrPdf(name)

RejectedByPage ==
    [type |-> "error", message |-> "Only .txt and .pdf files are supported"]

\* C2 amended: a file dropped or selected in the page whose name does not end in
\* .txt or .pdf (in any case) is rejected by handleFileUpload with the error 'Only
\* .txt and .pdf files are supported' before a request is sent: the step that
\* shows the error makes no upload, no temporary file, no request to the RAG
\* service and no change of the file lists, and every upload the page sends names
\* a .txt or .pdf file.
C2_PageRejectsUnsupported ==
    /\ [](\A u \in DOMAIN uploads :
             uploads[u].origin = "ui" => NamedTextOrPdf(uploads[u].file.name))
    /\ [][(uploadStatus' = RejectedByPage /\ uploadStatus # RejectedByPage)
            => UNCHANGED <<uploads, tmpFiles, ragCalls, ragFiles, sources, srcReqs,
                           isUploading>>]_vars

\* The page has rejected a file while nothing had been uploaded
C2_Witness ==
    /\ uploadStatus = RejectedByPage
    /\ uploads = <<>> /\ ragCalls = {} /\ tmpFiles = {}

\* C5: of the uploads the page started, at most one of a file name is in flight to
\* the RAG service at any time.
C5_SameNameSerialized ==
    \A u1, u2 \in DOMAIN uploads :
        (/\ u1 # u2
         /\ uploads[u1].origin = "ui" /\ uploads[u2].origin = "ui"
         /\ uploads[u1].pc = "awaitRag" /\ uploads[u2].pc = "awaitRag")
        => uploads[u1].file.name # uploads[u2].file.name

\* C8: once every upload of the page has succeeded and every /sources request has
\* been answered, the Case Files list is the RAG service's file list, whatever
\* the order of the answers.
C8_ListMatchesAfterUploads ==
    (/\ mounted
     /\ uploads # <<>>
     /\ \A u \in DOMAIN uploads :
           /\ uploads[u].origin = "ui" /\ uploads[u].ui = "done"
           /\ ~uploads[u].lost /\ uploads[u].resp.status = 200
     /\ \A s \in DOMAIN srcReqs :
           srcReqs[s].pc = "done" /\ srcReqs[s].reply.kind = "ok")
    => sources = ragFiles

\* C10: when an upload that carried a file has its response, the temporary file is
\* gone, it was unlinked at most once, and one response was sent.
C10_TempFileRemoved ==
    \A u \in DOMAIN uploads :
        /\ uploads[u].unlinks <= 1 /\ uploads[u].nresp <= 1
        /\ (uploads[u].file.name # <<>> /\ uploads[u].pc = "done")
           => (u \notin tmpFiles /\ uploads[u].nresp = 1)

\* The RAG service answered OK with a body that does not parse: the file was
\* unlinked after the fetch and the catch sent the response
C10_Witness ==
    \E u \in DOMAIN uploads :
        /\ uploads[u].pc = "done" /\ uploads[u].rag.kind = "okBadJson"
        /\ uploads[u].unlinks = 1 /\ uploads[u].resp.status = 500
        /\ u \notin tmpFiles

====
